---- MODULE Spec2Model ----
(***************************************************************************)
(* Model of site/src/backend.rs: WebBackend, the SysBackend of the Uiua     *)
(* web site.  The backend state is the struct's six fields; every trait     *)
(* method is one action.  spawn calls the task body synchronously, and the  *)
(* body may call back into the backend, so spawn is a call (spawn_call), the *)
(* body's own capability calls, and a return (spawn_return); `frames` is the *)
(* chain of spawn calls that are running their body.                         *)
(*                                                                           *)
(* Text is a sequence of character codes, bytes are a sequence of numbers.   *)
(***************************************************************************)
EXTENDS Integers, Sequences, FiniteSets, TLC

VARIABLES
    stdout,          \* WebBackend::stdout: Vec<OutputItem>
    stderr,          \* WebBackend::stderr: String
    trace,           \* WebBackend::trace: String
    files,           \* WebBackend::files: HashMap<String, Vec<u8>>
    next_thread_id,  \* WebBackend::next_thread_id: AtomicU64
    thread_results,  \* WebBackend::thread_results: HashMap<Handle, UiuaResult<Vec<Value>>>
    frames,          \* the spawn calls whose body is running, outermost first
    clock,           \* instant::now(): the time of the host in milliseconds
    sleeping,        \* the call of sleep that is in its loop, or the last one that returned
    bridge,          \* the host bridge run_js: its calls so far, the last code and reply
    lastCall,        \* the capability call that returned last, with its result
    inputs,          \* history: the texts handed to print_str_stdout, one after the other
    issued,          \* history: the handles allocated by spawn, in allocation order
    returned,        \* history: the handles spawn has returned to its caller
    consumed,        \* history: the handles whose stored outcome a wait has returned
    produced,        \* history: handle -> how its task body ended (failure, stack left)
    written          \* history: path -> bytes of the latest write-file issued for it

vars == <<stdout, stderr, trace, files, next_thread_id, thread_results, frames,
          clock, sleeping, bridge, lastCall, inputs, issued, returned, consumed, produced, written>>

-----------------------------------------------------------------------------
(* Bounds of the model *)

\* longest text handed to one print call
MaxLen == 2
\* most characters the output log holds
MaxText == 3
\* most items the output log holds
MaxLog == 3
\* most handles spawn allocates
MaxSpawns == 2
\* most characters the stderr and trace buffers hold
MaxBuf == 2
\* most calls of the host bridge
MaxRuns == 2
\* most steps of the clock
MaxTicks == 3

-----------------------------------------------------------------------------
(* Text: str::lines and str::ends_with as print_str_stdout uses them *)

LF == 10
CR == 13

\* the characters of the texts printed in SpecOut: 'a', 'b', '\r', '\n'
Chars == {97, 98, CR, LF}

\* the texts of exactly n characters out of chars
RECURSIVE TextsOfLen(_, _)
TextsOfLen(chars, n) ==
    IF n = 0 THEN {<<>>}
    ELSE {Append(t, c) : t \in TextsOfLen(chars, n - 1), c \in chars}

\* longer texts printed in SpecOut: "a\nb\n", "a\r\n", "a\nb", "ab\n"
Samples == {<<97, LF, 98, LF>>, <<97, CR, LF>>, <<97, LF, 98>>, <<97, 98, LF>>}

\* the texts printed in SpecOut: every text of up to MaxLen characters, and the samples
Texts == UNION {TextsOfLen(Chars, n) : n \in 0..MaxLen} \cup Samples

\* position of the first '\n' of s, 0 when there is none
FirstLF(s) ==
    IF \E i \in 1..Len(s) : s[i] = LF
    THEN CHOOSE i \in 1..Len(s) : s[i] = LF /\ \A j \in 1..(i - 1) : s[j] # LF
    ELSE 0

\* str::split_inclusive('\n'): the pieces of s, each ending with its '\n' if it has one
RECURSIVE split_inclusive(_)
split_inclusive(s) ==
    IF s = <<>> THEN <<>>
    ELSE LET i == FirstLF(s) IN
         IF i = 0 THEN <<s>>
         ELSE <<SubSeq(s, 1, i)>> \o split_inclusive(SubSeq(s, i + 1, Len(s)))

\* a piece that keeps its line ending
kept_line_ending(piece) == piece

\* one piece without its line ending: a final "\n" or "\r\n" is cut, a bare '\r' is kept
strip_line_ending(piece) ==
    LET n == Len(piece) IN
    IF n > 0 /\ piece[n] = LF
    THEN IF n > 1 /\ piece[n - 1] = CR
         THEN SubSeq(piece, 1, n - 2)
         ELSE SubSeq(piece, 1, n - 1)
    ELSE piece

\* str::lines
lines(s) ==
    LET pieces == split_inclusive(s) IN
    [i \in 1..Len(pieces) |-> strip_line_ending(pieces[i])]

\* a print that forgets the empty item after a final line break
never_ends_with_newline(s) == FALSE

\* s.ends_with('\n')
ends_with_newline(s) == Len(s) > 0 /\ s[Len(s)] = LF

-----------------------------------------------------------------------------
(* OutputItem and the output log *)

OutputItem(kind, payload) == [kind |-> kind, payload |-> payload]

String(text) == OutputItem("String", text)

\* print_str_stdout without the merge into the last Text item
stdout_pushed(log, s) ==
    LET ls == lines(s) IN
    IF ls = <<>> THEN log
    ELSE LET pushed == log \o [i \in 1..Len(ls) |-> String(ls[i])]
         IN IF s[Len(s)] = LF THEN Append(pushed, String(<<>>)) ELSE pushed

\* print_str_stdout with the merge into the latest Text item, wherever it stands
stdout_extended(log, s) ==
    LET ls == lines(s)
        texts == {i \in 1..Len(log) : log[i].kind = "String"}
        latest == CHOOSE i \in texts : \A j \in texts : j <= i
    IN IF ls = <<>> THEN log
       ELSE LET first == Head(ls)
                merged == IF texts # {}
                          THEN [log EXCEPT ![latest].payload = @ \o first]
                          ELSE Append(log, String(first))
                pushed == merged \o [i \in 1..(Len(ls) - 1) |-> String(ls[i + 1])]
            IN IF ends_with_newline(s) THEN Append(pushed, String(<<>>)) ELSE pushed

\* the body of print_str_stdout: the log after printing s
stdout_printed(log, s) ==
    LET ls == lines(s) IN
    IF ls = <<>> THEN log
    ELSE LET first == Head(ls)
             merged == IF log # <<>> /\ log[Len(log)].kind = "String"
                       THEN [log EXCEPT ![Len(log)].payload = @ \o first]
                       ELSE Append(log, String(first))
             pushed == merged \o [i \in 1..(Len(ls) - 1) |-> String(ls[i + 1])]
         IN IF ends_with_newline(s) THEN Append(pushed, String(<<>>)) ELSE pushed

RECURSIVE TextSize(_)
TextSize(log) ==
    IF log = <<>> THEN 0 ELSE Len(Head(log).payload) + TextSize(Tail(log))

LogFits(log) == Len(log) <= MaxLog /\ TextSize(log) <= MaxText

-----------------------------------------------------------------------------
(* HashMap *)

map_insert(m, k, v) == [x \in DOMAIN m \cup {k} |-> IF x = k THEN v ELSE m[x]]

\* a remove that empties the map
map_cleared(m, k) == <<>>

\* a remove that takes the entries of the lower keys along
map_removed_upto(m, k) == [x \in {y \in DOMAIN m : y > k} |-> m[x]]

\* a remove that leaves the entry in the map
map_kept(m, k) == m

map_remove(m, k) == [x \in DOMAIN m \ {k} |-> m[x]]

-----------------------------------------------------------------------------
(* Callers and the results of calls *)

\* the main program, which runs in no task
NoHandle == 0 - 1

\* the callers of the backend: the main program and the task bodies that are running
Callers == {NoHandle} \cup {frames[i] : i \in 1..Len(frames)}

\* callers that run side by side: the caller of a spawn goes on while the body runs
RunsDetached(c) == TRUE

\* the caller c is executing: spawn runs the body to its end before it returns, so
\* the caller of a spawn stands still while the body runs, and only the innermost
\* running body, or the main program when no body runs, executes
Runs(c) == c = IF frames = <<>> THEN NoHandle ELSE frames[Len(frames)]

\* a call of op by the caller c, with its arguments (path, data, handle) and its
\* result: tag is "Ok" or the kind of error, val the bytes or values returned, msg
\* the texts returned (the message of an error)
Call(c, op, path, data, handle, tag, val, msg) ==
    [op |-> op, by |-> c, path |-> path, data |-> data, handle |-> handle,
     tag |-> tag, val |-> val, msg |-> msg]

\* UiuaResult<Vec<Value>>: Ok(stack) or Err(UiuaError)
Outcome(tag, val) == [tag |-> tag, val |-> val]

Init ==
    /\ stdout = <<>>
    /\ stderr = <<>>
    /\ trace = <<>>
    /\ files = <<>>
    /\ next_thread_id = 0
    /\ thread_results = <<>>
    /\ frames = <<>>
    /\ clock = 0
    /\ sleeping = [active |-> FALSE, by |-> 0 - 1, start |-> 0,
                   seconds |-> [mag |-> "finite", thousandths |-> 0]]
    /\ bridge = [calls |-> 0, code |-> "", reply |-> <<>>]
    /\ lastCall = Call(NoHandle, "none", "", <<>>, NoHandle, "Ok", <<>>, <<>>)
    /\ inputs = <<>>
    /\ issued = <<>>
    /\ returned = {}
    /\ consumed = {}
    /\ produced = <<>>
    /\ written = <<>>

\* locks that are held for the whole of spawn, the call of the body included
held_across_body == {"thread_results"}

\* the locks that spawn holds while it calls the task body: none, the guard of
\* thread_results is taken after the body has returned and dropped with the insert
held_by_spawn == {}

\* the locks held by the spawn calls whose body is running
locked == IF frames = <<>> THEN {} ELSE held_by_spawn

\* mutex.lock().unwrap(): the caller goes on once nobody holds the mutex; every
\* method drops the guard before it returns
lock(mutex) == mutex \notin locked

History == <<issued, returned, consumed, produced, written>>

\* a history map with v noted for k
noted(m, k, v) == [x \in DOMAIN m \cup {k} |-> IF x = k THEN v ELSE m[x]]

-----------------------------------------------------------------------------
(* Output Multiplexer and the stderr / trace sinks *)

print_str_stdout(c, s) ==
    LET log == stdout_printed(stdout, s) IN
    /\ lock("stdout")
    /\ LogFits(log)
    /\ stdout' = log
    /\ inputs' = inputs \o s
    /\ lastCall' = Call(c, "print_str_stdout", "", s, NoHandle, "Ok", <<>>, <<>>)
    /\ UNCHANGED <<clock, sleeping, bridge, stderr, trace, files, next_thread_id, thread_results, frames, History>>

\* a print-stderr that also shows its text in the output log, as an Error item
print_str_stderr_shown(c, s) ==
    /\ Len(stderr) + Len(s) <= MaxBuf
    /\ stderr' = stderr \o s
    /\ stdout' = Append(stdout, OutputItem("Error", s))
    /\ lastCall' = Call(c, "print_str_stderr", "", s, NoHandle, "Ok", <<>>, <<>>)
    /\ UNCHANGED <<clock, sleeping, bridge, inputs, trace, files, next_thread_id, thread_results, frames, History>>

print_str_stderr(c, s) ==
    /\ lock("stderr")
    /\ Len(stderr) + Len(s) <= MaxBuf
    /\ stderr' = stderr \o s
    /\ lastCall' = Call(c, "print_str_stderr", "", s, NoHandle, "Ok", <<>>, <<>>)
    /\ UNCHANGED <<clock, sleeping, bridge, inputs, stdout, trace, files, next_thread_id, thread_results, frames, History>>

print_str_trace(c, s) ==
    /\ lock("trace")
    /\ Len(trace) + Len(s) <= MaxBuf
    /\ trace' = trace \o s
    /\ lastCall' = Call(c, "print_str_trace", "", s, NoHandle, "Ok", <<>>, <<>>)
    /\ UNCHANGED <<clock, sleeping, bridge, inputs, stdout, stderr, files, next_thread_id, thread_results, frames, History>>

\* image.write_to either encodes the image as PNG bytes or fails
show_image(c, encoded, bytes) ==
    /\ encoded => lock("stdout")
    /\ encoded => Len(stdout) < MaxLog
    /\ stdout' = IF encoded THEN Append(stdout, OutputItem("Image", bytes)) ELSE stdout
    /\ lastCall' = IF encoded
                   THEN Call(c, "show_image", "", bytes, NoHandle, "Ok", <<>>, <<>>)
                   ELSE Call(c, "show_image", "", bytes, NoHandle, "Err", <<>>,
                             <<"Failed to show image: ">>)
    /\ UNCHANGED <<clock, sleeping, bridge, inputs, stderr, trace, files, next_thread_id, thread_results, frames, History>>

show_gif(c, gif_bytes) ==
    /\ lock("stdout")
    /\ Len(stdout) < MaxLog
    /\ stdout' = Append(stdout, OutputItem("Gif", gif_bytes))
    /\ lastCall' = Call(c, "show_gif", "", gif_bytes, NoHandle, "Ok", <<>>, <<>>)
    /\ UNCHANGED <<clock, sleeping, bridge, inputs, stderr, trace, files, next_thread_id, thread_results, frames, History>>

play_audio(c, wav_bytes) ==
    /\ lock("stdout")
    /\ Len(stdout) < MaxLog
    /\ stdout' = Append(stdout, OutputItem("Audio", wav_bytes))
    /\ lastCall' = Call(c, "play_audio", "", wav_bytes, NoHandle, "Ok", <<>>, <<>>)
    /\ UNCHANGED <<clock, sleeping, bridge, inputs, stderr, trace, files, next_thread_id, thread_results, frames, History>>

-----------------------------------------------------------------------------
(* Virtual File Store *)

\* a write that appends to the file instead of replacing it
files_appended(store, path, contents) ==
    map_insert(store, path,
               (IF path \in DOMAIN store THEN store[path] ELSE <<>>) \o contents)

\* the file store after files.insert(path, contents)
files_written(store, path, contents) == map_insert(store, path, contents)

file_write_all(c, path, contents) ==
    /\ lock("files")
    /\ files' = files_written(files, path, contents)
    /\ written' = noted(written, path, contents)
    /\ lastCall' = Call(c, "file_write_all", path, contents, NoHandle, "Ok", <<>>, <<>>)
    /\ UNCHANGED <<clock, sleeping, bridge, inputs, stdout, stderr, trace, next_thread_id, thread_results, frames,
                   issued, returned, consumed, produced>>

\* a read that takes a missing file for an empty one
file_read_or_default(c, store, path) ==
    Call(c, "file_read_all", path, <<>>, NoHandle, "Ok",
         IF path \in DOMAIN store THEN store[path] ELSE <<>>, <<>>)

\* files.get(path).cloned().ok_or_else(|| format!("File not found: {path}"))
file_read_result(c, store, path) ==
    IF path \in DOMAIN store
    THEN Call(c, "file_read_all", path, <<>>, NoHandle, "Ok", store[path], <<>>)
    ELSE Call(c, "file_read_all", path, <<>>, NoHandle, "Err", <<>>,
              <<"File not found: " \o path>>)

file_read_all(c, path) ==
    /\ lock("files")
    /\ lastCall' = file_read_result(c, files, path)
    /\ UNCHANGED <<clock, sleeping, bridge, inputs, stdout, stderr, trace, files, next_thread_id, thread_results, frames,
                   History>>

-----------------------------------------------------------------------------
(* Task Registry *)

\* a counter that is read and not advanced
fetch_same(counter) == counter

\* next_thread_id.fetch_add(1, SeqCst): the counter after the handle was taken.
\* The counter is an AtomicU64 and wraps after 2^64 spawns, which MaxSpawns
\* keeps out of reach.
fetch_add(counter) == counter + 1

\* spawn up to the call of the task body: the handle is allocated, the captured
\* state is cloned and the body starts on the clone
spawn_call(c) ==
    /\ next_thread_id < MaxSpawns
    /\ next_thread_id' = fetch_add(next_thread_id)
    /\ frames' = Append(frames, next_thread_id)
    /\ issued' = Append(issued, [handle |-> next_thread_id, by |-> c,
                                  at |-> TextSize(stdout)])
    /\ UNCHANGED <<clock, sleeping, bridge, inputs, stdout, stderr, trace, files, thread_results, lastCall,
                   returned, consumed, produced, written>>

\* a body whose error is dropped and whose stack is taken all the same
task_outcome_taken(failure, left) == Outcome("Ok", left)

\* f(&mut env).map(|_| env.take_stack()): the body ends with Ok(()) (failure = 0)
\* or with an error, leaving the values `left` on the stack of its clone of the
\* captured state; the stack is taken only when the body succeeded
task_outcome(failure, left) ==
    IF failure = 0 THEN Outcome("Ok", left) ELSE Outcome("Err", <<failure>>)

\* the caller of the spawn that allocated handle
spawner(handle) ==
    issued[CHOOSE i \in 1..Len(issued) : issued[i].handle = handle /\
        \A j \in (i + 1)..Len(issued) : issued[j].handle # handle].by

\* frames without the task c
RECURSIVE without(_, _)
without(fs, c) ==
    IF fs = <<>> THEN <<>>
    ELSE IF Head(fs) = c THEN without(Tail(fs), c) ELSE <<Head(fs)>> \o without(Tail(fs), c)

\* a spawn that returns the handle with the outcome not stored
results_pending(results, handle, res) == results

\* thread_results.insert(handle, res)
results_stored(results, handle, res) == map_insert(results, handle, res)

\* spawn from the return of the body of task c on: the outcome is stored under the
\* handle and the handle is returned to the caller of spawn
spawn_return(c, failure, left) ==
    /\ c # NoHandle
    /\ lock("thread_results")
    /\ thread_results' = results_stored(thread_results, c, task_outcome(failure, left))
    /\ frames' = without(frames, c)
    /\ lastCall' = Call(spawner(c), "spawn", "", <<>>, c, "Ok", <<>>, <<>>)
    /\ returned' = returned \cup {c}
    /\ produced' = noted(produced, c, [failure |-> failure, left |-> left])
    /\ UNCHANGED <<clock, sleeping, bridge, inputs, stdout, stderr, trace, files, next_thread_id, issued, consumed,
                   written>>

\* the match of wait on thread_results.remove(&handle)
wait_result(c, results, handle) ==
    IF handle \in DOMAIN results
    THEN IF results[handle].tag = "Ok"
         THEN Call(c, "wait", "", <<>>, handle, "Ok", results[handle].val, <<>>)
         ELSE Call(c, "wait", "", <<>>, handle, "UiuaError", results[handle].val, <<>>)
    ELSE Call(c, "wait", "", <<>>, handle, "Err", <<>>, <<"Invalid thread handle">>)

wait(c, handle) ==
    /\ lock("thread_results")
    /\ thread_results' = map_remove(thread_results, handle)
    /\ lastCall' = wait_result(c, thread_results, handle)
    /\ consumed' = IF handle \in DOMAIN thread_results
                   THEN consumed \cup {handle} ELSE consumed
    /\ UNCHANGED <<clock, sleeping, bridge, inputs, stdout, stderr, trace, files, next_thread_id, frames,
                   issued, returned, produced, written>>

-----------------------------------------------------------------------------
(* Host Command Bridge *)

\* JsValue: undefined, null, a string, or a number.  A finite number is kept as
\* its double (`half` is twice the number, so halves are exact); a number above
\* or below the range of i32 (the infinities too) and NaN are kept by name.
JsValue(t, mag, half, s) == [t |-> t, mag |-> mag, half |-> half, s |-> s]

JsUndefined == JsValue("undefined", "", 0, "")

JsNull == JsValue("null", "", 0, "")

JsString(s) == JsValue("string", "", 0, s)

JsNumber(half) == JsValue("number", "finite", half, "")

JsOver == JsValue("number", "over", 0, "")

JsUnder == JsValue("number", "under", 0, "")

JsNaN == JsValue("number", "nan", 0, "")

\* js_sys::Array::get: the slot, undefined past the end of the array
get(array, index) == IF index < Len(array) THEN array[index + 1] ELSE JsUndefined

I32_MAX == 2147483647

I32_MIN == 0 - I32_MAX - 1

\* a cast that rounds down instead of toward zero
as_i32_floor(number) ==
    IF number.mag = "finite" THEN number.half \div 2
    ELSE IF number.mag = "over" THEN I32_MAX
    ELSE IF number.mag = "under" THEN I32_MIN
    ELSE 0

\* `as i32` on an f64: toward zero, clamped to the range of i32, NaN to 0
as_i32(number) ==
    IF number.mag = "finite"
    THEN IF number.half >= 0 THEN number.half \div 2 ELSE 0 - ((0 - number.half) \div 2)
    ELSE IF number.mag = "over" THEN I32_MAX
    ELSE IF number.mag = "under" THEN I32_MIN
    ELSE 0

\* result.get(0).as_f64().unwrap_or(0.0) as i32
status_of(reply) ==
    IF get(reply, 0).t = "number" THEN as_i32(get(reply, 0)) ELSE as_i32(JsNumber(0))

\* result.get(1).as_string().unwrap_or("".into())
output_of(reply) == IF get(reply, 1).t = "string" THEN get(reply, 1).s ELSE ""

\* an error string that counts only when the status is not 0
has_error_and_status(reply) == get(reply, 2).t = "string" /\ get(reply, 0) # JsNumber(0)

\* result.get(2).as_string() is Some(error)
has_error(reply) == get(reply, 2).t = "string"

\* args.join(",")
RECURSIVE join(_, _)
join(args, sep) ==
    IF args = <<>> THEN ""
    ELSE IF Len(args) = 1 THEN args[1]
    ELSE args[1] \o sep \o join(Tail(args), sep)

\* a code that is the bare name when the joined arguments are empty
code_bare_when_blank(command, args) ==
    IF join(args, ",") # "" THEN command \o "(" \o join(args, ",") \o ")" ELSE command

\* the code handed to run_js
code_of(command, args) ==
    IF Len(args) > 0 THEN command \o "(" \o join(args, ",") \o ")" ELSE command

\* run_js(&code), which answers with reply
run_js(code, reply) ==
    /\ bridge.calls < MaxRuns
    /\ bridge' = [calls |-> bridge.calls + 1, code |-> code, reply |-> reply]

run_command_inherit(c, command, args, reply) ==
    /\ run_js(code_of(command, args), reply)
    /\ lastCall' = IF has_error(reply)
                   THEN Call(c, "run_command_inherit", command, args, NoHandle, "Err", <<>>,
                             <<get(reply, 2).s>>)
                   ELSE Call(c, "run_command_inherit", command, args, NoHandle, "Ok",
                             <<status_of(reply)>>, <<>>)
    /\ UNCHANGED <<clock, sleeping, inputs, stdout, stderr, trace, files, next_thread_id,
                   thread_results,
                   frames, History>>

\* Ok((status, output, "".into())): val holds the status, msg the output and the
\* error text
run_command_capture(c, command, args, reply) ==
    /\ run_js(code_of(command, args), reply)
    /\ lastCall' = IF has_error(reply)
                   THEN Call(c, "run_command_capture", command, args, NoHandle, "Err", <<>>,
                             <<"Javascript error: " \o get(reply, 2).s>>)
                   ELSE Call(c, "run_command_capture", command, args, NoHandle, "Ok",
                             <<status_of(reply)>>, <<output_of(reply), "">>)
    /\ UNCHANGED <<clock, sleeping, inputs, stdout, stderr, trace, files, next_thread_id,
                   thread_results,
                   frames, History>>

-----------------------------------------------------------------------------
(* sleep and the clock *)

\* the f64 `seconds`: a finite number of thousandths of a second, an infinity or NaN
Seconds(mag, thousandths) == [mag |-> mag, thousandths |-> thousandths]

\* the milliseconds of one step of the clock
Tick == 500

\* the divisor of the loop condition
MsPerSecond == 1000

\* a loop that is left at its first test
never_waiting(now, start, seconds) == FALSE

\* the loop condition (instant::now() - start) / 1000.0 < seconds: a comparison
\* with NaN is false, every number is below the positive infinity and none is
\* below the negative one
still_waiting(now, start, seconds) ==
    IF seconds.mag = "nan" THEN FALSE
    ELSE IF seconds.mag = "inf" THEN TRUE
    ELSE IF seconds.mag = "neginf" THEN FALSE
    ELSE (now - start) * 1000 < seconds.thousandths * MsPerSecond

\* the clock of the host advances; its last value, MaxTicks * Tick, stands for that
\* time and every later one
tick ==
    /\ clock' = IF clock + Tick <= MaxTicks * Tick THEN clock + Tick ELSE clock
    /\ UNCHANGED <<sleeping, bridge, lastCall, stdout, stderr, trace, files, next_thread_id,
                   thread_results, frames, inputs, History>>

\* the caller is in no call of sleep
Awake == ~sleeping.active

\* sleep up to its loop: start is read off the clock.  A finite sleep is called
\* early enough for it to end before the last value of the clock.
sleep_call(c, seconds) ==
    /\ Awake
    /\ seconds.mag = "finite" => clock + seconds.thousandths <= MaxTicks * Tick
    /\ sleeping' = [active |-> TRUE, by |-> c, start |-> clock, seconds |-> seconds]
    /\ UNCHANGED <<clock, bridge, lastCall, stdout, stderr, trace, files, next_thread_id,
                   thread_results, frames, inputs, History>>

\* the loop of sleep finds its condition false and sleep returns Ok(()); a test that
\* finds the condition true changes nothing and is followed by the next test
sleep_return ==
    /\ sleeping.active
    /\ ~still_waiting(clock, sleeping.start, sleeping.seconds)
    /\ sleeping' = [sleeping EXCEPT !.active = FALSE]
    /\ lastCall' = Call(sleeping.by, "sleep", "", <<>>, NoHandle, "Ok", <<>>, <<>>)
    /\ UNCHANGED <<clock, bridge, stdout, stderr, trace, files, next_thread_id,
                   thread_results, frames, inputs, History>>

-----------------------------------------------------------------------------
(* Specifications *)

\* SpecOut: the output multiplexer alone, driven by the main program
NextOut ==
    \/ \E s \in Texts : print_str_stdout(NoHandle, s)
    \/ \E encoded \in BOOLEAN : show_image(NoHandle, encoded, <<1>>)
    \/ show_gif(NoHandle, <<2>>)
    \/ play_audio(NoHandle, <<3>>)

SpecOut == Init /\ [][NextOut]_vars

\* the character a caller prints and writes: '0' for the main program,
\* '1', '2', ... for the tasks
Mark(c) == 49 + c

Paths == {"a.txt", "b.txt"}

Handles == 0..MaxSpawns

\* Spec: the task registry, with the main program and the task bodies printing
\* their mark and writing a file; the body of a task leaves its mark on its stack
\* or fails with its mark as the error
Next ==
    \/ \E c \in Callers : Runs(c) /\ print_str_stdout(c, <<Mark(c)>>)
    \/ \E c \in Callers : Runs(c) /\ file_write_all(c, "a.txt", <<1>>)
    \/ \E c \in Callers : Runs(c) /\ spawn_call(c)
    \/ \E c \in Callers : \E failure \in {0, Mark(c)} :
          Runs(c) /\ spawn_return(c, failure, <<Mark(c)>>)
    \/ \E c \in Callers, h \in Handles : Runs(c) /\ wait(c, h)

Spec == Init /\ [][Next]_vars

\* SpecFiles: the file store, with the main program and the task bodies writing
\* their mark
NextFiles ==
    \/ \E c \in Callers, p \in Paths, n \in 0..1 :
          Runs(c) /\ file_write_all(c, p, [i \in 1..n |-> Mark(c)])
    \/ \E c \in Callers, p \in Paths : Runs(c) /\ file_read_all(c, p)
    \/ \E c \in Callers : Runs(c) /\ print_str_stdout(c, <<97>>)
    \/ \E c \in Callers : Runs(c) /\ spawn_call(c)
    \/ \E c \in Callers : Runs(c) /\ spawn_return(c, 0, <<>>)
    \/ \E c \in Callers, h \in Handles : Runs(c) /\ wait(c, h)

SpecFiles == Init /\ [][NextFiles]_vars

\* the replies of the host bridge: every array of three slots out of these values,
\* and shorter arrays
Replies ==
    {<<a, b, c>> :
        a \in {JsUndefined, JsNumber(0), JsNumber(2), JsNumber(3), JsNumber(0 - 3),
               JsOver, JsUnder, JsNaN, JsString("7")},
        b \in {JsUndefined, JsNull, JsString("hi"), JsString("")},
        c \in {JsUndefined, JsNull, JsString("boom"), JsString(""), JsNumber(2)}}
    \cup {<<>>, <<JsNumber(2)>>, <<JsNumber(2), JsString("hi")>>}

Commands == {"echo", "fail"}

\* no argument, one empty argument, one argument, two arguments with a comma in one
ArgLists == {<<>>, <<"">>, <<"hi">>, <<"a,b", "c">>}

\* SpecRun: the host command bridge, driven by the main program
NextRun ==
    \/ \E command \in Commands, args \in ArgLists, reply \in Replies :
          run_command_inherit(NoHandle, command, args, reply)
    \/ \E command \in Commands, args \in ArgLists, reply \in Replies :
          run_command_capture(NoHandle, command, args, reply)

SpecRun == Init /\ [][NextRun]_vars

\* SpecTasks: the task registry under the assumption that every task body ends, with
\* the main program and the task bodies spawning, waiting, printing, and writing
\* and reading a file
NextTasks ==
    \/ \E c \in Callers : Runs(c) /\ spawn_call(c)
    \/ \E c \in Callers : Runs(c) /\ spawn_return(c, 0, <<>>)
    \/ \E c \in Callers, h \in Handles : Runs(c) /\ wait(c, h)
    \/ \E c \in Callers : Runs(c) /\ print_str_stdout(c, <<97>>)
    \/ \E c \in Callers : Runs(c) /\ file_write_all(c, "a.txt", <<>>)
    \/ \E c \in Callers : Runs(c) /\ file_read_all(c, "a.txt")

\* the innermost body that is running ends
BodyEnds == \E c \in Callers : Runs(c) /\ spawn_return(c, 0, <<>>)

SpecTasks == Init /\ [][NextTasks]_vars /\ WF_vars(BodyEnds)

\* the durations handed to sleep: -1 s, 0 s, 0.5 s, 1 s, the infinities and NaN
Durations ==
    {Seconds("finite", t) : t \in {0 - 1000, 0, 500, 1000}}
    \cup {Seconds("inf", 0), Seconds("neginf", 0), Seconds("nan", 0)}

\* SpecSleep: the main program sleeps, and prints and writes a file between its
\* sleeps, while the clock advances; the clock keeps advancing and the loop of
\* sleep keeps testing its condition
NextSleep ==
    \/ tick
    \/ \E seconds \in Durations : sleep_call(NoHandle, seconds)
    \/ sleep_return
    \/ Awake /\ print_str_stdout(NoHandle, <<97>>)
    \/ Awake /\ file_write_all(NoHandle, "a.txt", <<1>>)

SpecSleep == Init /\ [][NextSleep]_vars /\ WF_vars(tick) /\ WF_vars(sleep_return)

\* SpecPrint: print-stdout alone, on the fresh backend
NextPrint == \E s \in Texts : print_str_stdout(NoHandle, s)

SpecPrint == Init /\ [][NextPrint]_vars

\* the text handed to print-stderr and print-trace: a line break
SinkTexts == {<<LF>>}

\* SpecSinks: the stderr and trace sinks next to the output log, the file store and
\* the result table; the main program spawns tasks, and it and the task bodies
\* print texts without line breaks
NextSinks ==
    \/ \E c \in Callers, s \in {<<97>>, <<98>>} : Runs(c) /\ print_str_stdout(c, s)
    \/ \E c \in Callers, s \in SinkTexts : Runs(c) /\ print_str_stderr(c, s)
    \/ \E c \in Callers, s \in SinkTexts : Runs(c) /\ print_str_trace(c, s)
    \/ file_write_all(NoHandle, "a.txt", <<1>>)
    \/ Runs(NoHandle) /\ spawn_call(NoHandle)
    \/ \E c \in Callers : Runs(c) /\ spawn_return(c, 0, <<>>)
    \/ Runs(NoHandle) /\ wait(NoHandle, 0)

SpecSinks == Init /\ [][NextSinks]_vars

-----------------------------------------------------------------------------
(* Output Multiplexer: line coalescing (SpecOut) *)

NoLineBreak(s) == \A i \in 1..Len(s) : s[i] # LF

IsPrint(call) == call.op = "print_str_stdout"

\* the log holds the one Text item that a print of the text s, free of line breaks,
\* left on the empty log (the log never shrinks and a lone Text item is never
\* empty, so nothing else leaves the last call and the log in this shape)
AfterFirstPrint(call, log) ==
    /\ IsPrint(call)
    /\ NoLineBreak(call.data)
    /\ \/ log = <<String(call.data)>>
       \/ call.data = <<>> /\ log = <<>>

\* C1 as stated, the empty text included: a print of s, free of line breaks, on the
\* empty log leaves exactly the Text item s, and a following print of t, free of
\* line breaks, leaves exactly the Text item s+t.
C1_AsStated ==
    [][(IsPrint(lastCall') /\ NoLineBreak(lastCall'.data)) =>
         /\ stdout = <<>> => stdout' = <<String(lastCall'.data)>>
         /\ AfterFirstPrint(lastCall, stdout) =>
                stdout' = <<String(lastCall.data \o lastCall'.data)>>]_vars

\* C1: on the empty log a print of a non-empty text s free of line breaks leaves
\* exactly one Text item equal to s (a print of the empty text leaves the log
\* empty); a following print of t, free of line breaks and possibly empty, leaves
\* exactly one Text item equal to s+t.
C1_PlainTextMerges ==
    [][(IsPrint(lastCall') /\ NoLineBreak(lastCall'.data)) =>
         /\ (stdout = <<>> /\ lastCall'.data # <<>>) =>
                stdout' = <<String(lastCall'.data)>>
         /\ (stdout = <<>> /\ lastCall'.data = <<>>) => stdout' = <<>>
         /\ (AfterFirstPrint(lastCall, stdout) /\ lastCall.data # <<>>) =>
                stdout' = <<String(lastCall.data \o lastCall'.data)>>]_vars

\* print("b") has merged into the item that print("a") left on the empty log
C1_Witness ==
    /\ IsPrint(lastCall)
    /\ lastCall.data = <<98>>
    /\ stdout = <<String(<<97, 98>>)>>

\* the texts without '\r' and '\n'
PlainTexts == UNION {TextsOfLen({97, 98}, n) : n \in 0..MaxLen}

\* the inputs of up to MaxLen + 2 characters made of lines that each end with a
\* line break, "\n" or "\r\n", with the contents of their lines: `more` further
\* lines after those of ins
RECURSIVE TerminatedLines(_, _)
TerminatedLines(ins, more) ==
    IF more = 0 THEN ins
    ELSE LET longer == {[text |-> r.text \o c \o br, contents |-> Append(r.contents, c)] :
                          r \in ins, c \in PlainTexts, br \in {<<LF>>, <<CR, LF>>}}
         IN TerminatedLines(ins \cup {r \in longer : Len(r.text) <= MaxLen + 2}, more - 1)

LineInputs ==
    {r \in TerminatedLines({[text |-> <<>>, contents |-> <<>>]}, MaxLen + 2) :
        r.contents # <<>> /\ r.text \in Texts}

LastIsText(log) == log # <<>> /\ log[Len(log)].kind = "String"

\* C2: a print of n >= 1 lines that each end with a line break, on a log that is
\* empty or ends with an item that is no Text item, appends exactly n+1 Text items:
\* the contents of the n lines in order, then one empty Text item.
C2_TerminatedLines ==
    [][\A r \in LineInputs :
         (IsPrint(lastCall') /\ lastCall'.data = r.text /\ ~LastIsText(stdout)) =>
            stdout' = stdout \o [i \in 1..Len(r.contents) |-> String(r.contents[i])]
                             \o <<String(<<>>)>>]_vars

\* print("a\nb\n") has left "a", "b", "" on the empty log
C2_Witness ==
    /\ IsPrint(lastCall)
    /\ lastCall.data = <<97, LF, 98, LF>>
    /\ stdout = <<String(<<97>>), String(<<98>>), String(<<>>)>>

\* the step leaves the items of the log before the last one as they are, and
\* changes the last one only in a print, and only by appending text to a Text item
AppendOnly ==
    /\ Len(stdout') >= Len(stdout)
    /\ \A i \in 1..(Len(stdout) - 1) : stdout'[i] = stdout[i]
    /\ (stdout # <<>> /\ stdout'[Len(stdout)] # stdout[Len(stdout)]) =>
          LET old == stdout[Len(stdout)]
              new == stdout'[Len(stdout)]
          IN /\ IsPrint(lastCall')
             /\ old.kind = "String"
             /\ new.kind = "String"
             /\ Len(new.payload) > Len(old.payload)
             /\ SubSeq(new.payload, 1, Len(old.payload)) = old.payload

\* the last item of the log is an image, animation or audio item
LastIsMedia(log) == log # <<>> /\ log[Len(log)].kind \in {"Image", "Gif", "Audio"}

\* the step appends Text items to the log, the first of them the first line of s
StartsText(s) ==
    /\ Len(stdout') > Len(stdout)
    /\ SubSeq(stdout', 1, Len(stdout)) = stdout
    /\ stdout'[Len(stdout) + 1] = String(lines(s)[1])

\* C14 as stated: the log is append-only, and every print issued when the last item
\* is an image, animation or audio item starts a new Text item.
C14_AsStated ==
    [][/\ AppendOnly
       /\ (IsPrint(lastCall') /\ LastIsMedia(stdout)) => StartsText(lastCall'.data)]_vars

\* C14: the length of the log never decreases, every item but the last keeps its
\* variant and content, the last item is changed only by a print and only by
\* appending text to a Text item, and a print of a non-empty text issued when the
\* last item is an image, animation or audio item starts a new Text item (a print
\* of the empty text leaves the log as it is).
C14_AppendOnly ==
    [][/\ AppendOnly
       /\ (IsPrint(lastCall') /\ LastIsMedia(stdout)) =>
             IF lastCall'.data # <<>> THEN StartsText(lastCall'.data)
             ELSE stdout' = stdout]_vars

\* print("b") after print("a") and an animation has started a new Text item
C14_Witness ==
    /\ IsPrint(lastCall)
    /\ lastCall.data = <<98>>
    /\ stdout = <<String(<<97>>), OutputItem("Gif", <<2>>), String(<<98>>)>>

\* the payloads of the items of log with a newline between two of them
RECURSIVE JoinedByNewline(_)
JoinedByNewline(log) ==
    IF log = <<>> THEN <<>>
    ELSE IF Len(log) = 1 THEN log[1].payload
    ELSE log[1].payload \o <<LF>> \o JoinedByNewline(Tail(log))

\* C17: when only print-stdout was called since the backend was made, with texts
\* that hold no '\r', the Text items of the log joined by a newline are, after every
\* call, the texts printed so far one after the other.
C17_JoinIsConcatenation ==
    (\A i \in 1..Len(inputs) : inputs[i] # CR) =>
       /\ \A i \in 1..Len(stdout) : stdout[i].kind = "String"
       /\ JoinedByNewline(stdout) = inputs

\* print("a\n") and print("b\n") have left "a", "b", ""
C17_Witness ==
    /\ IsPrint(lastCall)
    /\ lastCall.data = <<98, LF>>
    /\ inputs = <<97, LF, 98, LF>>
    /\ stdout = <<String(<<97>>), String(<<98>>), String(<<>>)>>

-----------------------------------------------------------------------------
(* Diagnostic and Trace Sinks (SpecSinks) *)

\* the step is a call of op that returns (spawn_call, the one step that leaves
\* lastCall as it is, advances the handle counter)
Calls(op) == lastCall'.op = op /\ next_thread_id' = next_thread_id

IsSink(call) == call.op \in {"print_str_stderr", "print_str_trace"}

\* C16: print-stderr and print-trace append their text as it is, line breaks
\* included, to their own buffer and leave the other buffer, the output log, the
\* file store and the result table unchanged; a print-stdout of a text without line
\* breaks, when not empty, leaves a Text item last, and a following print-stdout of a text without
\* line breaks extends that item also when a print-stderr or print-trace was the
\* call before it.
C16_SinksFrame ==
    [][/\ Calls("print_str_stderr") =>
             /\ stderr' = stderr \o lastCall'.data
             /\ UNCHANGED <<trace, stdout, files, thread_results>>
       /\ Calls("print_str_trace") =>
             /\ trace' = trace \o lastCall'.data
             /\ UNCHANGED <<stderr, stdout, files, thread_results>>
       /\ (Calls("print_str_stdout") /\ NoLineBreak(lastCall'.data)) =>
             /\ lastCall'.data # <<>> => LastIsText(stdout')
             /\ (IsSink(lastCall) /\ LastIsText(stdout)) =>
                   stdout' = [stdout EXCEPT ![Len(stdout)].payload = @ \o lastCall'.data]]_vars

\* print("b") has merged into the item of print("a") with a print-stderr and a
\* print-trace in between, while a file and the outcome of a task are stored
C16_Witness ==
    /\ IsPrint(lastCall)
    /\ lastCall.data = <<98>>
    /\ stdout = <<String(<<97, 98>>)>>
    /\ stderr = <<LF>>
    /\ trace = <<LF>>
    /\ "a.txt" \in DOMAIN files
    /\ 0 \in DOMAIN thread_results
    /\ issued[1].at = 1

-----------------------------------------------------------------------------
(* Virtual File Store (SpecFiles) *)

IsRead(call) == call.op = "file_read_all"

IsWrite(call) == call.op = "file_write_all"

SameFile(store, other, p) ==
    /\ p \in DOMAIN store <=> p \in DOMAIN other
    /\ p \in DOMAIN store => store[p] = other[p]

\* C3: read-file(p) returns exactly the bytes of the latest write-file(p, b) issued,
\* by the main program or inside a task body, whatever other writes, prints, spawns
\* and waits came in between: the store holds for every path the bytes of its latest
\* write, and a write changes no other path.
C3_ReadReturnsLatestWrite ==
    /\ [](/\ \A p \in Paths : SameFile(files, written, p)
          /\ (IsRead(lastCall) /\ lastCall.path \in DOMAIN written) =>
                (lastCall.tag = "Ok" /\ lastCall.val = written[lastCall.path]))
    /\ [][IsWrite(lastCall') =>
            /\ files'[lastCall'.path] = lastCall'.data
            /\ \A q \in Paths \ {lastCall'.path} : SameFile(files', files, q)]_vars

\* the main program reads back from a.txt the byte that task 0 wrote over the
\* main program's own, after a write to b.txt, a print and a wait
C3_Witness ==
    /\ IsRead(lastCall)
    /\ lastCall.by = NoHandle
    /\ lastCall.path = "a.txt"
    /\ lastCall.val = <<Mark(0)>>
    /\ "b.txt" \in DOMAIN files
    /\ files["b.txt"] = <<>>
    /\ stdout # <<>>
    /\ 0 \in consumed

\* C4: read-file(p) on a path that no write-file has targeted fails with the
\* file-not-found error that carries p, returns no bytes, and leaves the file
\* store as it is, without an entry for p.
C4_MissingFileFails ==
    /\ []((IsRead(lastCall) /\ lastCall.path \notin DOMAIN written) =>
             /\ lastCall.tag = "Err"
             /\ lastCall.msg = <<"File not found: " \o lastCall.path>>
             /\ lastCall.val = <<>>
             /\ lastCall.path \notin DOMAIN files)
    /\ [][IsRead(lastCall') => files' = files]_vars

\* a task body fails to read b.txt while a.txt is there
C4_Witness ==
    /\ IsRead(lastCall)
    /\ lastCall.by = 0
    /\ lastCall.path = "b.txt"
    /\ lastCall.tag = "Err"
    /\ "a.txt" \in DOMAIN files
    /\ "b.txt" \notin DOMAIN written

-----------------------------------------------------------------------------
(* Task Registry (Spec) *)

\* the step is a call of op that returns (a call that repeats the last one with
\* the same result and no effect is no step at all)
Returns(op) == lastCall'.op = op /\ lastCall' # lastCall

InvalidHandle(call) == call.tag = "Err" /\ call.msg = <<"Invalid thread handle">>

\* C5: every spawn is given a handle strictly greater than every handle allocated
\* before it, also inside a running body and after earlier handles were consumed,
\* so no handle is issued twice; spawn returns the handle it allocated.
C5_HandlesIncrease ==
    /\ \A i, j \in 1..Len(issued) : i < j => issued[i].handle < issued[j].handle
    /\ \A h \in returned : \E i \in 1..Len(issued) : issued[i].handle = h
    /\ \A i \in 1..Len(issued) : issued[i].handle < next_thread_id

\* the main program was given handle 1 after the outcome of handle 0 was consumed
C5_Witness ==
    /\ 0 \in consumed
    /\ lastCall.op = "spawn"
    /\ lastCall.handle = 1
    /\ lastCall.by = NoHandle

\* C6: once a wait(h) has returned the stored outcome of h, h has no entry in the
\* result table any more and every later wait(h) fails with InvalidHandle.
C6_ConsumedOnce ==
    /\ [](\A h \in consumed : h \notin DOMAIN thread_results)
    /\ [][(Returns("wait") /\ lastCall'.handle \in consumed) =>
            InvalidHandle(lastCall')]_vars

\* a second wait on handle 0 has failed
C6_Witness ==
    /\ lastCall.op = "wait"
    /\ lastCall.handle = 0
    /\ 0 \in consumed
    /\ InvalidHandle(lastCall)

\* the outcome that the body's end, as the history has it, amounts to
OutcomeOf(h) ==
    IF produced[h].failure = 0
    THEN Outcome("Ok", produced[h].left)
    ELSE Outcome("Err", <<produced[h].failure>>)

\* some caller can take the step wait(h)
CanWait(h) == \E c \in Callers : Runs(c) /\ wait(c, h)

\* C7: wait never blocks.  From the return of spawn to the first wait(h) the outcome
\* of h is in the result table; the first wait(h) returns it, in one step that is
\* enabled in every state, whatever the other tasks do.
C7_WaitNeverBlocks ==
    /\ [](\A h \in returned \ consumed :
            h \in DOMAIN thread_results /\ thread_results[h] = OutcomeOf(h))
    /\ [](\A h \in Handles : ENABLED CanWait(h))
    /\ [][\A h \in returned \ consumed :
            (Returns("wait") /\ lastCall'.handle = h) =>
               /\ ~InvalidHandle(lastCall')
               /\ lastCall'.val = OutcomeOf(h).val
               /\ h \notin DOMAIN thread_results']_vars

\* the first wait on handle 0 comes after task 1 was spawned, has run and was
\* waited for, and returns the stack of task 0
C7_Witness ==
    /\ lastCall.op = "wait"
    /\ lastCall.handle = 0
    /\ lastCall.tag = "Ok"
    /\ lastCall.val = <<Mark(0)>>
    /\ consumed = {0, 1}
    /\ stdout # <<>>

\* C8: a failing body does not make spawn fail: spawn returns a fresh handle and
\* stores the body's error under it, and the first wait on the handle returns that
\* error as a language-level error, not as InvalidHandle; after a succeeding body
\* the first wait returns the value sequence the body left on its stack.
C8_FailureDeferredToWait ==
    /\ [][Returns("spawn") =>
            LET h == lastCall'.handle IN
            /\ lastCall'.tag = "Ok"
            /\ h \notin returned
            /\ h \in DOMAIN thread_results'
            /\ produced'[h].failure # 0 =>
                  thread_results'[h] = Outcome("Err", <<produced'[h].failure>>)]_vars
    /\ [][\A h \in returned \ consumed :
            (Returns("wait") /\ lastCall'.handle = h) =>
               IF produced[h].failure # 0
               THEN /\ lastCall'.tag = "UiuaError"
                    /\ lastCall'.val = <<produced[h].failure>>
                    /\ lastCall'.msg = <<>>
               ELSE /\ lastCall'.tag = "Ok"
                    /\ lastCall'.val = produced[h].left]_vars

\* the first wait on handle 1 has returned the error that the body of task 1,
\* spawned by task 0, ended with
C8_Witness ==
    /\ lastCall.op = "wait"
    /\ lastCall.handle = 1
    /\ lastCall.tag = "UiuaError"
    /\ lastCall.val = <<Mark(1)>>
    /\ Len(issued) = 2
    /\ issued[2].by = 0

\* the characters of the output log in log order
RECURSIVE Printed(_)
Printed(log) == IF log = <<>> THEN <<>> ELSE Head(log).payload \o Printed(Tail(log))

\* the task h and the tasks spawned, directly or not, by its body
RECURSIVE Descendants(_)
Descendants(h) ==
    {h} \cup UNION {Descendants(issued[i].handle) :
                      i \in {j \in 1..Len(issued) : issued[j].by = h}}

\* the positions of the printed characters out that tasks of hs printed
PrintedBy(out, hs) == {i \in 1..Len(out) : \E h \in hs : out[i] = Mark(h)}

\* C9: the body runs to its end inside spawn.  When spawn returns, the outcome is
\* in the result table and the task is no caller any more; nothing is printed
\* later by the task or by a task it spawned; what they printed stands in the log
\* before everything the caller of the spawn prints after calling it, and what an
\* earlier spawn of a caller printed stands before what a later one printed.
C9_BodyRunsInsideSpawn ==
    /\ [](lastCall.op = "spawn" =>
            /\ lastCall.handle \in DOMAIN thread_results
            /\ lastCall.handle \notin Callers)
    /\ [](lastCall.by \notin returned)
    /\ [](LET out == Printed(stdout) IN
          \A k \in 1..Len(issued) :
            LET after == {i \in PrintedBy(out, {issued[k].by}) : i > issued[k].at}
                inside == PrintedBy(out, Descendants(issued[k].handle))
            IN /\ \A i \in after, j \in inside : j < i
               /\ \A l \in (k + 1)..Len(issued) :
                    issued[k].by = issued[l].by =>
                       \A i \in inside, j \in PrintedBy(out, Descendants(issued[l].handle)) :
                          i < j)
    /\ [][stdout' # stdout =>
            \A h \in returned :
               PrintedBy(Printed(stdout'), Descendants(h))
                  = PrintedBy(Printed(stdout), Descendants(h))]_vars

\* task 0 printed, then the task 1 it spawned, and the main program after both
C9_Witness ==
    /\ stdout = <<String(<<Mark(0), Mark(1), Mark(NoHandle)>>)>>
    /\ returned = {0, 1}
    /\ issued[2].by = 0
    /\ "a.txt" \in DOMAIN files

\* the handles that a spawn has allocated
Allocated == {issued[i].handle : i \in 1..Len(issued)}

\* C13 as stated, with issued read as allocated by spawn: every handle without an
\* entry in the result table was never allocated or has been consumed by a wait.
C13_AsStated ==
    \A h \in Handles :
       h \notin DOMAIN thread_results => (h \notin Allocated \/ h \in consumed)

\* C13: in every state in which a call can be issued, every handle without an entry
\* in the result table was never allocated by spawn, or belongs to a spawn that has
\* not returned yet because its body is still running, or has been consumed by a
\* wait; so every handle that spawn has returned and no wait has consumed has an
\* entry.
C13_AbsentHandles ==
    \A h \in Handles :
       h \notin DOMAIN thread_results =>
          \/ h \notin Allocated
          \/ h \notin returned /\ h \in Callers
          \/ h \in consumed

\* inside the body of task 1: handle 0 is consumed, handle 1 is allocated and not
\* returned, handle 2 was never allocated, and the body's wait on 1 has failed
C13_Witness ==
    /\ frames = <<1>>
    /\ consumed = {0}
    /\ thread_results = <<>>
    /\ next_thread_id = 2
    /\ lastCall.op = "wait"
    /\ lastCall.by = 1
    /\ lastCall.handle = 1
    /\ InvalidHandle(lastCall)

\* C15: a wait(h) on a handle without an entry fails with InvalidHandle and leaves
\* the result table, the handle counter, the output log, the file store, stderr and
\* trace as they are; a wait(h) on a handle with an entry succeeds or returns the
\* stored error, removes the entry of h alone and leaves the entries of the other
\* handles and the handle counter as they are.
C15_WaitFrame ==
    [][Returns("wait") =>
         LET h == lastCall'.handle IN
         IF h \notin DOMAIN thread_results
         THEN /\ InvalidHandle(lastCall')
              /\ UNCHANGED <<thread_results, next_thread_id, stdout, files, stderr, trace>>
         ELSE /\ ~InvalidHandle(lastCall')
              /\ DOMAIN thread_results' = DOMAIN thread_results \ {h}
              /\ \A g \in DOMAIN thread_results' : thread_results'[g] = thread_results[g]
              /\ UNCHANGED <<next_thread_id, stdout, files, stderr, trace>>]_vars

\* a wait on the never allocated handle 2 has failed while the outcome of task 1 is
\* stored, task 0 is consumed, and the log and the file store are not empty
C15_Witness ==
    /\ lastCall.op = "wait"
    /\ lastCall.handle = 2
    /\ InvalidHandle(lastCall)
    /\ DOMAIN thread_results = {1}
    /\ consumed = {0}
    /\ next_thread_id = 2
    /\ stdout # <<>>
    /\ "a.txt" \in DOMAIN files

-----------------------------------------------------------------------------
(* Task Registry: locks and the running body (SpecTasks) *)

\* the body of task c is not kept from any call it can make: a spawn while handles
\* are left, a wait on any handle, a print while the log has room, a write and a
\* read of a file, and its own end, with which spawn returns
BodyNotBlocked(c) ==
    /\ next_thread_id < MaxSpawns => ENABLED spawn_call(c)
    /\ \A h \in Handles : ENABLED wait(c, h)
    /\ LogFits(stdout_printed(stdout, <<97>>)) => ENABLED print_str_stdout(c, <<97>>)
    /\ ENABLED file_write_all(c, "a.txt", <<>>)
    /\ ENABLED file_read_all(c, "a.txt")
    /\ ENABLED spawn_return(c, 0, <<>>)

\* C18: no lock is held while a task body runs; the body that is running is not
\* blocked in a spawn, wait, print or file call, nor in its end; a wait of a body on
\* the handle of its own spawn (or of a spawn around it) fails with InvalidHandle;
\* and, every body ending at some time, every spawn returns its handle.
C18_NoLockAcrossBody ==
    /\ [](locked = {})
    /\ [](\A c \in Callers \ {NoHandle} : Runs(c) => BodyNotBlocked(c))
    /\ [][(Calls("wait") /\ lastCall'.handle \in Callers) => InvalidHandle(lastCall')]_vars
    /\ \A h \in Handles : (h \in Callers) ~> (h \in returned)

\* the body of task 1, spawned by the body of task 0, has waited on its own handle
\* and was told that the handle is invalid
C18_Witness ==
    /\ frames = <<0, 1>>
    /\ lastCall.op = "wait"
    /\ lastCall.by = 1
    /\ lastCall.handle = 1
    /\ InvalidHandle(lastCall)
    /\ stdout # <<>>
    /\ "a.txt" \in DOMAIN files

-----------------------------------------------------------------------------
(* sleep (SpecSleep) *)

\* the step is the return of sleep
SleepReturns == sleeping.active /\ ~sleeping'.active

\* the duration asked for is zero or less
NonPositive(seconds) ==
    \/ seconds.mag = "neginf"
    \/ seconds.mag = "finite" /\ seconds.thousandths <= 0

\* sleep returns Ok only when the clock is at least the duration asked for past the
\* start of the call; it can return in the state it was called in when the duration
\* is zero or less; it changes no field of the backend
SleepsLongEnough ==
    /\ [][SleepReturns =>
            /\ lastCall'.op = "sleep" /\ lastCall'.tag = "Ok"
            /\ sleeping.seconds.mag # "inf"
            /\ sleeping.seconds.mag = "finite" =>
                  clock - sleeping.start >= sleeping.seconds.thousandths]_vars
    /\ []((sleeping.active /\ NonPositive(sleeping.seconds) /\ clock = sleeping.start) =>
             ENABLED sleep_return)
    /\ [][sleeping' # sleeping =>
            UNCHANGED <<stdout, stderr, trace, files, next_thread_id, thread_results>>]_vars

\* C19 as stated: sleep returns only after the duration, at once for a duration of
\* zero or less, without a change to the backend, and every call of sleep returns
\* when the clock keeps advancing.
C19_AsStated ==
    /\ SleepsLongEnough
    /\ sleeping.active ~> ~sleeping.active

\* C19: sleep returns only after the duration, at once for a duration of zero or
\* less, without a change to the backend; when the clock keeps advancing, every
\* call of sleep with a duration other than the positive infinity returns, and a
\* call with the positive infinity never does.
C19_SleepReturns ==
    /\ SleepsLongEnough
    /\ (sleeping.active /\ sleeping.seconds.mag # "inf") ~> ~sleeping.active
    /\ []((sleeping.active /\ sleeping.seconds.mag = "inf") => [](sleeping.active))

\* sleep(1) called at 500 ms has returned at 1500 ms, with a text in the log
C19_Witness ==
    /\ lastCall.op = "sleep"
    /\ sleeping = [active |-> FALSE, by |-> NoHandle, start |-> 500,
                   seconds |-> Seconds("finite", 1000)]
    /\ clock = 1500
    /\ stdout # <<>>

-----------------------------------------------------------------------------
(* Host Command Bridge (SpecRun) *)

IsRun(call) == call.op \in {"run_command_inherit", "run_command_capture"}

\* the last call was a run that the bridge answered without an error string
RanWithoutError == IsRun(lastCall) /\ get(bridge.reply, 2).t # "string"

\* the results of the two run variants on the last reply, for the status n
RunSucceeded(n) ==
    /\ lastCall.tag = "Ok"
    /\ lastCall.val = <<n>>
    /\ get(bridge.reply, 1).t = "string" =>
          (lastCall.op = "run_command_capture" => lastCall.msg[1] = get(bridge.reply, 1).s)
    /\ get(bridge.reply, 1).t = "undefined" =>
          (lastCall.op = "run_command_capture" => lastCall.msg[1] = "")
    /\ lastCall.op = "run_command_capture" => (Len(lastCall.msg) = 2 /\ lastCall.msg[2] = "")
    /\ lastCall.op = "run_command_inherit" => lastCall.msg = <<>>

\* C10 as stated: on a reply without an error string both run variants succeed with
\* the status that is slot 0, 0 when slot 0 is absent or no number; capture
\* returns slot 1 as the output, empty when absent, and the empty text third.
C10_AsStated ==
    RanWithoutError =>
       LET slot == get(bridge.reply, 0) IN
       IF slot.t = "number"
       THEN slot.mag = "finite" /\ \E n \in {lastCall.val[1]} : 2 * n = slot.half /\ RunSucceeded(n)
       ELSE RunSucceeded(0)

\* slot 0 as Rust's `as i32` has it: the whole number n next to it toward zero
\* (n itself when it is whole), the end of the range of i32 when it lies beyond,
\* 0 when it is NaN
IsStatusOf(n, slot) ==
    IF slot.mag = "finite"
    THEN IF slot.half >= 0
         THEN 2 * n <= slot.half /\ slot.half < 2 * n + 2
         ELSE 2 * n - 2 < slot.half /\ slot.half <= 2 * n
    ELSE IF slot.mag = "over" THEN n = 2147483647
    ELSE IF slot.mag = "under" THEN n + 1 = 0 - 2147483647
    ELSE n = 0

\* C10: on a reply without an error string both run variants succeed with the
\* same status, slot 0 cast to i32 (slot 0 itself when it is a whole number in the
\* range of i32, cut toward zero when it has a fraction, the end of the range when
\* it lies beyond, 0 when it is NaN, absent or no number); capture returns slot 1
\* as the output, empty when absent, and the empty text third; inherit returns
\* the status alone.
C10_RunSucceeds ==
    RanWithoutError =>
       LET slot == get(bridge.reply, 0) IN
       IF slot.t = "number"
       THEN \E n \in {lastCall.val[1]} : IsStatusOf(n, slot) /\ RunSucceeded(n)
       ELSE RunSucceeded(0)

\* run-command-capture("echo", ["hi"]) on the reply [0, "hi", null] gave (0, "hi", "")
C10_Witness ==
    /\ lastCall.op = "run_command_capture"
    /\ bridge.code = "echo(hi)"
    /\ bridge.reply = <<JsNumber(0), JsString("hi"), JsNull>>
    /\ lastCall.tag = "Ok"
    /\ lastCall.val = <<0>>
    /\ lastCall.msg = <<"hi", "">>

\* C11: on a reply whose slot 2 is an error string e, whatever slots 0 and 1 hold,
\* both run variants fail and return no status: run-command-inherit with exactly e,
\* run-command-capture with e behind the fixed prefix "Javascript error: ".
C11_RunFails ==
    (IsRun(lastCall) /\ get(bridge.reply, 2).t = "string") =>
       LET e == get(bridge.reply, 2).s IN
       /\ lastCall.tag = "Err"
       /\ lastCall.val = <<>>
       /\ lastCall.op = "run_command_inherit" => lastCall.msg = <<e>>
       /\ lastCall.op = "run_command_capture" => lastCall.msg = <<"Javascript error: " \o e>>

\* run-command-inherit("fail", []) on the reply [1, "", "boom"] failed with "boom"
C11_Witness ==
    /\ lastCall.op = "run_command_inherit"
    /\ bridge.code = "fail"
    /\ bridge.reply = <<JsNumber(2), JsString(""), JsString("boom")>>
    /\ lastCall.tag = "Err"
    /\ lastCall.msg = <<"boom">>

\* the arguments one after the other with a comma between two of them
RECURSIVE CommaSeparated(_)
CommaSeparated(args) ==
    IF Len(args) = 1 THEN args[1]
    ELSE CommaSeparated(SubSeq(args, 1, Len(args) - 1)) \o "," \o args[Len(args)]

\* C12: every call of a run variant calls the host bridge exactly once, with the
\* bare command name when the argument list is empty and with name(arg1,...,argn)
\* when it has n >= 1 arguments, joined by one comma and not quoted; one empty
\* argument gives name().
C12_CallExpression ==
    [][IsRun(lastCall') =>
         LET name == lastCall'.path
             args == lastCall'.data
         IN /\ bridge'.calls = bridge.calls + 1
            /\ args = <<>> => bridge'.code = name
            /\ args # <<>> => bridge'.code = name \o "(" \o CommaSeparated(args) \o ")"
            /\ args = <<"">> => bridge'.code = name \o "()"]_vars

\* run-command-capture("echo", [""]) has passed echo() to the bridge, after
\* run-command-inherit("fail", ["a,b", "c"]) had passed fail(a,b,c)
C12_Witness ==
    /\ lastCall.op = "run_command_capture"
    /\ lastCall.path = "echo"
    /\ lastCall.data = <<"">>
    /\ bridge.code = "echo()"
    /\ bridge.calls = 2

====
